---------------------------- MODULE Spec2Model ----------------------------
(***************************************************************************)
(* Model of the crawl-and-ingest pipeline of Dev-Knowledge:                *)
(* ScraperUtils (scrapeAll, processBatch, processUrl, extractLinks,        *)
(* isValidUrl, isWithinSameDomain) and processScrapedResult.               *)
(*                                                                         *)
(* A URL is the parsed form of a WHATWG URL: a record of its hostname (a   *)
(* sequence of labels), its pathname (a sequence of characters) and its    *)
(* fragment (a sequence of characters, empty when the URL has none).  Href *)
(* serialises it back to the string the code handles.                      *)
(***************************************************************************)
EXTENDS Integers, Sequences, FiniteSets, Bags, TLC

(***************************************************************************)
(* Bounds of the model.                                                    *)
(***************************************************************************)
MaxRuns == 2
MaxLinks == 2
MaxDepthArg == 2
MaxConcurrency == 2
MaxBatchSize == 2
MaxCeiling == 3
MaxQueueLen == 4
MaxScaledCeiling == 1
MaxRows == 3
MaxLimit == 3
MaxLoads == 3
MaxOverlap == 2
MaxSentences == 3
MaxChunk == 2

(***************************************************************************)
(* Sequences: helpers.                                                     *)
(***************************************************************************)
Range(s) == {s[i] : i \in 1..Len(s)}

Min(a, b) == IF a < b THEN a ELSE b

Max(a, b) == IF a < b THEN b ELSE a

SeqsUpTo(S, n) == UNION {[1..k -> S] : k \in 0..n}

(***************************************************************************)
(* String.prototype.toLowerCase, on the characters the model uses.         *)
(***************************************************************************)
LowerChar(c) ==
  CASE c = "H" -> "h"
    [] c = "T" -> "t"
    [] c = "M" -> "m"
    [] c = "L" -> "l"
    [] c = "P" -> "p"
    [] OTHER -> c

ToLowerCase(s) == [i \in 1..Len(s) |-> LowerChar(s[i])]

(***************************************************************************)
(* String.prototype.endsWith and String.prototype.includes (one character).*)
(***************************************************************************)
EndsWith(s, suffix) ==
  /\ Len(suffix) <= Len(s)
  /\ SubSeq(s, Len(s) - Len(suffix) + 1, Len(s)) = suffix

Includes(s, c) == \E i \in 1..Len(s) : s[i] = c

(***************************************************************************)
(* Hostnames, pathnames and fragments of the model's URLs.                 *)
(***************************************************************************)
HostA == <<"a", "test">>
HostSub == <<"sub", "a", "test">>
HostExt == <<"ext", "test">>

PathIndex == <<"/", "i", ".", "h", "t", "m", "l">>
PathPage == <<"/", "p", ".", "h", "t", "m", "l">>
PathDocs == <<"/", "d">>
PathExt == <<"/", "x", ".", "h", "t", "m", "l">>
PathPdf == <<"/", "g", ".", "p", "d", "f">>
PathDotDir == <<"/", "v", ".", "2", "/", "d">>

NoFrag == <<>>
Frag == <<"f">>

Url(h, p, f) == [host |-> h, path |-> p, frag |-> f]

(***************************************************************************)
(* URL.href: the serialised URL.  The labels of the hostname are joined by *)
(* dots; the fragment, when there is one, follows a '#'.                   *)
(***************************************************************************)
RECURSIVE JoinLabels(_)
JoinLabels(labels) ==
  IF Len(labels) = 0 THEN <<>>
  ELSE IF Len(labels) = 1 THEN <<labels[1]>>
  ELSE <<labels[1], ".">> \o JoinLabels(Tail(labels))

Href(u) ==
  <<"https:", "/", "/">> \o JoinLabels(u.host) \o u.path
    \o (IF u.frag = NoFrag THEN <<>> ELSE <<"#">> \o u.frag)

(***************************************************************************)
(* ScraperUtils.isValidUrl.                                                *)
(***************************************************************************)
IsValidUrl(u) ==
  IF Includes(Href(u), "#") THEN FALSE
  ELSE LET pathname == ToLowerCase(u.path)
       IN \/ EndsWith(pathname, <<".", "h", "t", "m", "l">>)
          \/ EndsWith(pathname, <<".", "h", "t", "m">>)
          \/ ~Includes(pathname, ".")

(***************************************************************************)
(* ScraperUtils.isWithinSameDomain.                                        *)
(***************************************************************************)
IsSuffixDomain(u, base) == EndsWith(u.host, base.host)

IsWithinSameDomain(u, base) == u.host = base.host

(***************************************************************************)
(* The href attribute values a page may hold: an absolute URL, a           *)
(* path-absolute reference, or a value the URL constructor rejects.        *)
(***************************************************************************)
AbsRef(u) == [kind |-> "abs", url |-> u]
RelRef(p, f) == [kind |-> "rel", url |-> Url(<<>>, p, f)]
BadRef == [kind |-> "bad", url |-> Url(<<>>, <<>>, NoFrag)]

HrefPool ==
  { AbsRef(Url(HostA, PathIndex, NoFrag)),
    AbsRef(Url(HostA, PathPage, NoFrag)),
    AbsRef(Url(HostA, PathPage, Frag)),
    AbsRef(Url(HostA, PathPdf, NoFrag)),
    AbsRef(Url(HostA, PathDotDir, NoFrag)),
    AbsRef(Url(HostSub, PathPage, NoFrag)),
    AbsRef(Url(HostExt, PathExt, NoFrag)),
    RelRef(PathDocs, NoFrag),
    BadRef }

Seeds == { Url(HostA, PathIndex, NoFrag), Url(HostExt, PathExt, NoFrag) }

(***************************************************************************)
(* new URL(href, base): the reference resolved against the page's URL.     *)
(***************************************************************************)
Parses(ref) == ref.kind # "bad"

Resolve(ref, base) ==
  IF ref.kind = "abs" THEN ref.url
  ELSE Url(base.host, ref.url.path, ref.url.frag)

AllUrls == Seeds \cup {Resolve(r, s) : r \in {x \in HrefPool : Parses(x)}, s \in Seeds}

(***************************************************************************)
(* ScraperUtils.extractLinks: the eligible links of a page, in the order   *)
(* of their href attributes.                                               *)
(***************************************************************************)
RECURSIVE ExtractLinks(_, _)
ExtractLinks(hrefs, baseUrl) ==
  IF hrefs = <<>> THEN <<>>
  ELSE LET ref == Head(hrefs)
           rest == ExtractLinks(Tail(hrefs), baseUrl)
       IN IF ~Parses(ref) THEN rest
          ELSE LET absoluteUrl == Resolve(ref, baseUrl)
               IN IF IsWithinSameDomain(absoluteUrl, baseUrl) /\ IsValidUrl(absoluteUrl)
                  THEN <<absoluteUrl>> \o rest
                  ELSE rest


(***************************************************************************)
(* A JavaScript Set, kept as the sequence of its elements in insertion     *)
(* order: Set.prototype.add and the deletion of a batch of elements.       *)
(***************************************************************************)
SetAdd(q, u) == IF u \in Range(q) THEN q ELSE Append(q, u)

DeleteNone(q, removed) == q
SetDeleteAll(q, removed) == SelectSeq(q, LAMBDA x : x \notin Range(removed))

(***************************************************************************)
(* Array.prototype.slice(0, end), slice(-n) and splice(0, n).              *)
(***************************************************************************)
SliceAll(s, end) == s

SliceTo(s, end) ==
  LET k == IF end < 0 THEN Max(Len(s) + end, 0) ELSE Min(end, Len(s))
  IN SubSeq(s, 1, k)

SliceFirst(s, n) == SubSeq(s, 1, Min(n, Len(s)))
SliceLast(s, n) == SubSeq(s, Max(Len(s) - n, 0) + 1, Len(s))

SpliceEverything(s, n) == s
SpliceRemoved(s, n) == SubSeq(s, 1, Min(n, Len(s)))

SpliceRest(s, n) == SubSeq(s, Min(n, Len(s)) + 1, Len(s))

(***************************************************************************)
(* The fields of a ScraperUtils instance.                                  *)
(***************************************************************************)
Null == "null"
InitialMaxDepth == 10
QueueCeiling == 10000
ItemDepth == 0

VARIABLES
  visited,      \* this.visited
  queue,        \* this.queue, in insertion order
  encoder,      \* this.encoder
  schema,       \* this.schema
  results,      \* this.results
  maxDepth      \* this.maxDepth

(***************************************************************************)
(* The activation of scrapeAll and of the processBatch it awaits.          *)
(***************************************************************************)
VARIABLES
  pc,           \* where scrapeAll stands
  baseUrl,      \* the seed of the current call
  concurrency,  \* its concurrency argument
  batchSize,    \* its batchSize argument
  batch,        \* the batch pulled by the current iteration
  next,         \* index in batch of the next processUrl to call
  inflight,     \* URLs whose fetchClient.get has not settled
  items,        \* processBatch: the results spliced off the buffer
  embedding     \* processBatch: URLs of items awaiting encoder.extract

(***************************************************************************)
(* History of the instance, kept for the properties.                       *)
(***************************************************************************)
VARIABLES
  runs,         \* scrapeAll calls made so far
  issued,       \* URLs whose fetch the current batch issued
  fetchCount,   \* fetchCount[u]: fetches issued for u
  outcome,      \* outcome[u]: "ok" or "failed" once the fetch of u settled
  discDepth,    \* discDepth[u]: depth of first discovery in this run, -1 if none
  extracted,    \* URLs whose links were extracted in this run
  handed,       \* handed[u]: times the result of u went to processScrapedResult
  missedLink    \* an eligible unvisited link was left out of the queue

(***************************************************************************)
(* The input and the verdict of a call of isValidUrl on its own.           *)
(***************************************************************************)
VARIABLES probe, verdict

(***************************************************************************)
(* The ceiling of the queue, which processBatch compares the queue size    *)
(* with and cuts it to.  The program fixes it at QueueCeiling; it is part  *)
(* of the state so that the same actions can be explored with a ceiling    *)
(* small enough for the queue to exceed.  untrimmed is history: the queue  *)
(* as the last execution of the trim step that cut it found it.            *)
(***************************************************************************)
VARIABLES ceiling, untrimmed

(***************************************************************************)
(* The ingest of the running processBatch and the vector store.            *)
(***************************************************************************)
VARIABLES
  parsed,       \* parsed[u]: what schema.parse gave for the item of u
  rejected,     \* URLs of items whose processScrapedResult call rejected
  extracts,     \* the encoder.extract calls the running batch has made
  inserts,      \* the Database.insertVector calls the running batch has made
  store         \* the rows of table embedding, a bag

(***************************************************************************)
(* Calls of Database.searchVectors on their own: the arguments of the last *)
(* call and what it returned.                                              *)
(***************************************************************************)
(***************************************************************************)
(* The site the fetches are made on: any site of the model, or the site of *)
(* the end-to-end scenario.                                                *)
(***************************************************************************)
VARIABLES web

VARIABLES
  returned,     \* the EmbeddingQuery array the last searchVectors call returned
  dbQuery       \* the query vector and the limit of that call

scraperVars == <<visited, queue, encoder, schema, results, maxDepth>>
callVars == <<pc, baseUrl, concurrency, batchSize, batch, next, inflight, items, embedding>>
historyVars == <<runs, issued, fetchCount, outcome, discDepth, extracted, handed, missedLink>>
probeVars == <<probe, verdict>>
trimVars == <<ceiling, untrimmed>>
ingestVars == <<parsed, rejected, extracts, inserts, store>>
dbVars == <<returned, dbQuery>>
(***************************************************************************)
(* The Encoder: its two fields, the initialize calls waiting for the model *)
(* to load, and the extract call in progress.                              *)
(***************************************************************************)
VARIABLES
  pipeline,        \* Encoder.pipeline: Null or the loaded model
  initialized,     \* Encoder.initialized
  loading,         \* initialize calls suspended at `await pipeline(...)`
  overlap,         \* an initialize call started while another was loading
  loads,           \* how many times pipeline('feature-extraction', model) was called
  initOutcome,     \* how the last initialize call to finish a step ended
  extPc,           \* "idle", or "await" while extract waits for the pipeline
  sentenceList,    \* the sentences argument of the last extract call
  mergedOptions,   \* the merged options of the last extract call that used them
  batches,         \* processBatches: the chunks not yet returned by the pipeline
  allResults,      \* processBatches: the vectors collected so far
  pipelineCalls,   \* the chunks the extract call has passed to the pipeline
  extractOutcome   \* what the last extract call settled with

encVars == <<pipeline, initialized, loading, overlap, loads, initOutcome, extPc,
             sentenceList, mergedOptions, batches, allResults, pipelineCalls,
             extractOutcome>>

(***************************************************************************)
(* main(): where it stands, the crawls it has made, and how the process    *)
(* ended.                                                                  *)
(***************************************************************************)
VARIABLES
  mainPc,       \* "idle", "init", "crawl", "caught" or "exited"
  crawlAt,      \* index of the scrapeAll call in progress (0: none yet)
  crawlLog,     \* for each finished scrapeAll call, the failures it contained
  logged,       \* the catch handler of main() has logged an error
  exitStatus    \* exit status of the process (-1 while it runs)

mainVars == <<mainPc, crawlAt, crawlLog, logged, exitStatus>>

(***************************************************************************)
(* The Decoder: its static flag, the query call in progress and how the    *)
(* last query call settled.  Its encoder is the Encoder above.             *)
(***************************************************************************)
VARIABLES
  decInitialized,   \* Decoder.initialized
  decPc,            \* "idle", "init", "ready" or "extract"
  decQuery,         \* the arguments of the last query call
  decOutcome        \* what the last query call settled with

decVars == <<decInitialized, decPc, decQuery, decOutcome>>

callerVars == <<mainVars, decVars>>

unitVars == <<dbVars, web, encVars, mainVars, decVars>>
vars == <<scraperVars, callVars, historyVars, probeVars, trimVars, ingestVars, unitVars>>

Pages == [links : SeqsUpTo(HrefPool, MaxLinks)]

(***************************************************************************)
(* The site of the end-to-end scenario: the index page links to page1, to  *)
(* a page of another host and to a fragment of page1; the other pages are  *)
(* left open.                                                              *)
(***************************************************************************)
ScenarioIndex == Url(HostA, PathIndex, NoFrag)
ScenarioPage1 == Url(HostA, PathPage, NoFrag)
ScenarioExt == Url(HostExt, PathExt, NoFrag)
ScenarioFrag == Url(HostA, PathPage, Frag)

ScenarioIndexPage ==
  [links |-> <<AbsRef(ScenarioPage1), AbsRef(ScenarioExt), AbsRef(ScenarioFrag)>>]

PagesAt(site, url) ==
  IF site = "scenario" /\ url = ScenarioIndex THEN {ScenarioIndexPage} ELSE Pages

NoUrl == Url(<<>>, <<>>, NoFrag)

NotParsed == [kind |-> "none", text |-> <<>>]

(***************************************************************************)
(* The Encoder as constructed, with no call made on it.                    *)
(***************************************************************************)
DefaultModel == "Xenova/all-MiniLM-L6-v2"
DefaultBatchSize == 32

NoOutcome == [kind |-> "none", message |-> "", data |-> <<>>, dimensions |-> 0, count |-> 0]

MainNew ==
  /\ mainPc = "idle"
  /\ crawlAt = 0
  /\ crawlLog = <<>>
  /\ logged = FALSE
  /\ exitStatus = -1

NoCall == [query |-> <<>>, limit |-> 0]

Pending == [kind |-> "none", message |-> "", rows |-> <<>>]

DecoderNew ==
  /\ decInitialized = FALSE
  /\ decPc = "idle"
  /\ decQuery = NoCall
  /\ decOutcome = Pending

EncoderNew ==
  /\ pipeline = Null
  /\ initialized = FALSE
  /\ loading = 0
  /\ overlap = FALSE
  /\ loads = 0
  /\ initOutcome = "none"
  /\ extPc = "idle"
  /\ sentenceList = <<>>
  /\ mergedOptions = [batchSize |-> DefaultBatchSize]
  /\ batches = <<>>
  /\ allResults = <<>>
  /\ pipelineCalls = <<>>
  /\ extractOutcome = NoOutcome

NoQuery == [query |-> <<>>, limit |-> 0]

InitScraper ==
  /\ visited = {}
  /\ queue = <<>>
  /\ encoder = Null
  /\ schema = Null
  /\ results = <<>>
  /\ maxDepth = InitialMaxDepth
  /\ pc = "idle"
  /\ baseUrl = NoUrl
  /\ concurrency = 0
  /\ batchSize = 0
  /\ batch = <<>>
  /\ next = 1
  /\ inflight = {}
  /\ items = <<>>
  /\ embedding = {}
  /\ runs = 0
  /\ issued = {}
  /\ fetchCount = [u \in AllUrls |-> 0]
  /\ outcome = [u \in AllUrls |-> "none"]
  /\ discDepth = [u \in AllUrls |-> -1]
  /\ extracted = {}
  /\ handed = [u \in AllUrls |-> 0]
  /\ missedLink = FALSE
  /\ parsed = [u \in AllUrls |-> NotParsed]
  /\ rejected = {}
  /\ extracts = {}
  /\ inserts = {}
  /\ store = EmptyBag
  /\ returned = <<>>
  /\ dbQuery = NoQuery

Init ==
  /\ InitScraper
  /\ probe = NoUrl
  /\ verdict = "unchecked"
  /\ ceiling = QueueCeiling
  /\ untrimmed = <<>>
  /\ web = "any"
  /\ EncoderNew
  /\ MainNew
  /\ DecoderNew

(***************************************************************************)
(* scrapeAll, up to the loop: the arguments are stored and the seed is     *)
(* added to the queue.                                                     *)
(***************************************************************************)
ScrapeAll ==
  /\ pc \in {"idle", "done"}
  /\ runs < MaxRuns
  /\ \E seed \in Seeds, d \in 0..MaxDepthArg, c \in 0..MaxConcurrency,
        b \in 1..MaxBatchSize, e \in {Null, "encoder"}, s \in {Null, "schema"} :
       /\ maxDepth' = d
       /\ encoder' = e
       /\ schema' = s
       /\ queue' = SetAdd(queue, seed)
       /\ baseUrl' = seed
       /\ concurrency' = c
       /\ batchSize' = b
       /\ discDepth' = [u \in AllUrls |-> IF u = seed THEN 0 ELSE -1]
  /\ extracted' = {}
  /\ runs' = runs + 1
  /\ pc' = "loop"
  /\ UNCHANGED <<visited, results, batch, next, inflight, items, embedding>>
  /\ UNCHANGED <<issued, fetchCount, outcome, handed, missedLink, probeVars, unitVars, trimVars, ingestVars>>

(***************************************************************************)
(* One iteration of the loop, up to the calls of processUrl: the batch is  *)
(* sliced off the queue and its URLs are deleted from the queue.           *)
(***************************************************************************)
PullBatch ==
  /\ pc = "loop"
  /\ Len(queue) > 0
  /\ batch' = SliceTo(queue, concurrency)
  /\ queue' = SetDeleteAll(queue, batch')
  /\ next' = 1
  /\ issued' = {}
  /\ pc' = IF batch' = <<>> THEN "await" ELSE "launch"
  /\ UNCHANGED <<visited, encoder, schema, results, maxDepth>>
  /\ UNCHANGED <<baseUrl, concurrency, batchSize, inflight, items, embedding>>
  /\ UNCHANGED <<runs, fetchCount, outcome, discDepth, extracted, handed, missedLink>>
  /\ UNCHANGED <<probeVars, unitVars, trimVars, ingestVars>>

(***************************************************************************)
(* processUrl up to its first await: a visited URL returns at once, any    *)
(* other is marked visited and its fetch is issued.                        *)
(***************************************************************************)
NeverVisited(vis, u) == FALSE

AlreadyVisited(vis, u) == u \in vis

NotMarked(vis, u) == vis

MarkVisited(vis, u) == vis \cup {u}

ProcessUrl ==
  /\ pc = "launch"
  /\ LET url == batch[next]
     IN IF AlreadyVisited(visited, url)
        THEN UNCHANGED <<visited, inflight, issued, fetchCount>>
        ELSE /\ visited' = MarkVisited(visited, url)
             /\ inflight' = inflight \cup {url}
             /\ issued' = issued \cup {url}
             /\ fetchCount' = [fetchCount EXCEPT ![url] = @ + 1]
  /\ next' = next + 1
  /\ pc' = IF next = Len(batch) THEN "await" ELSE "launch"
  /\ UNCHANGED <<queue, encoder, schema, results, maxDepth>>
  /\ UNCHANGED <<baseUrl, concurrency, batchSize, batch, items, embedding>>
  /\ UNCHANGED <<runs, outcome, discDepth, extracted, handed, missedLink, probeVars, unitVars, trimVars, ingestVars>>

(***************************************************************************)
(* processUrl, lines 113-117: each new link is added to the queue unless   *)
(* it is visited.                                                          *)
(***************************************************************************)
RECURSIVE EnqueueAll(_, _, _)
EnqueueAll(q, links, vis) ==
  IF links = <<>> THEN q
  ELSE EnqueueAll(SetAdd(q, Head(links)), Tail(links), vis)

RECURSIVE EnqueueLinks(_, _, _)
EnqueueLinks(q, links, vis) ==
  IF links = <<>> THEN q
  ELSE EnqueueLinks(IF Head(links) \notin vis THEN SetAdd(q, Head(links)) ELSE q,
                    Tail(links), vis)

(***************************************************************************)
(* processUrl, line 107: the page is pushed on the result buffer.  The     *)
(* content of a result is the page fetched from its URL; its links are     *)
(* read once, by extractLinks, before the push returns, and what           *)
(* schema.parse makes of it is drawn when processScrapedResult parses it.  *)
(***************************************************************************)
DropResult(res, url) == res

PushResult(res, url) == Append(res, [url |-> url])

(***************************************************************************)
(* The depth of first discovery: a link the page yields gets the depth of  *)
(* the page plus one, unless it has a depth already.                       *)
(***************************************************************************)
Discover(depths, links, d) ==
  [u \in AllUrls |-> IF depths[u] = -1 /\ u \in Range(links) THEN d + 1 ELSE depths[u]]

(***************************************************************************)
(* A link of the page that is on the seed's hostname, passes the extension *)
(* and fragment filter and is not visited.                                 *)
(***************************************************************************)
EligibleLinks(page, url, seed, vis) ==
  { Resolve(r, url) : r \in {x \in Range(page.links) : Parses(x)} } \cap
    { a \in AllUrls : a.host = seed.host /\ IsValidUrl(a) /\ a \notin vis }

(***************************************************************************)
(* processUrl after a fetch that succeeded: the result is pushed and, when *)
(* the depth of the item is below maxDepth, the links are enqueued.        *)
(***************************************************************************)
FetchOk ==
  /\ pc = "await"
  /\ \E url \in inflight : \E page \in PagesAt(web, url) :
       /\ inflight' = inflight \ {url}
       /\ results' = PushResult(results, url)
       /\ outcome' = [outcome EXCEPT ![url] = "ok"]
       /\ IF ItemDepth < maxDepth
          THEN LET newLinks == ExtractLinks(page.links, url)
               IN /\ queue' = EnqueueLinks(queue, newLinks, visited)
                  /\ discDepth' = Discover(discDepth, newLinks, discDepth[url])
                  /\ extracted' = extracted \cup {url}
                  /\ missedLink' = (missedLink \/
                       ~(EligibleLinks(page, url, baseUrl, visited) \subseteq Range(queue')))
          ELSE UNCHANGED <<queue, discDepth, extracted, missedLink>>
  /\ UNCHANGED <<visited, encoder, schema, maxDepth>>
  /\ UNCHANGED <<pc, baseUrl, concurrency, batchSize, batch, next, items, embedding>>
  /\ UNCHANGED <<runs, issued, fetchCount, handed, probeVars, unitVars, trimVars, ingestVars>>

(***************************************************************************)
(* processUrl after a fetch that failed: scrapeUrl throws, the catch       *)
(* clause logs the error and processUrl returns.                           *)
(***************************************************************************)
FetchFail ==
  /\ pc = "await"
  /\ \E url \in inflight :
       /\ inflight' = inflight \ {url}
       /\ outcome' = [outcome EXCEPT ![url] = "failed"]
  /\ UNCHANGED <<scraperVars, probeVars, unitVars, trimVars, ingestVars>>
  /\ UNCHANGED <<pc, baseUrl, concurrency, batchSize, batch, next, items, embedding>>
  /\ UNCHANGED <<runs, issued, fetchCount, discDepth, extracted, handed, missedLink>>

(***************************************************************************)
(* processScrapedResult, lines 109-112: what schema.parse can give for the *)
(* page of a URL (it throws, or returns null, the empty string or the text *)
(* of the page), and the test that drops the item.                         *)
(***************************************************************************)
TextOf(url) == url.path

ParseOutcomes(url) ==
  { [kind |-> "throws", text |-> <<>>],
    [kind |-> "null", text |-> <<>>],
    [kind |-> "string", text |-> <<>>],
    [kind |-> "string", text |-> TextOf(url)] }

DropsOnlyNull(markdown) == markdown.kind = "null"
IsEmptyTransform(markdown) == markdown.kind = "null" \/ Len(markdown.text) = 0

(***************************************************************************)
(* Encoder.extract on its sentences: one vector for each, in order.  Embed *)
(* stands for the transformer pipeline.  FirstOrEmpty is data[0] ?? [].    *)
(***************************************************************************)
Embed(sentence) == <<"#">> \o sentence

ExtractData(sentences) == [i \in 1..Len(sentences) |-> Embed(sentences[i])]

AlwaysEmpty(data) == <<>>
FirstOrEmpty(data) == IF Len(data) > 0 THEN data[1] ELSE <<>>

(***************************************************************************)
(* The row insertVector writes.  Its id (GeneratorUtils.generateId) and    *)
(* its timestamp (Date.now) are left out.                                  *)
(***************************************************************************)
Row(id, url, markdown, vector) ==
  [id |-> id, source |-> url, content |-> markdown, vector |-> vector]

(***************************************************************************)
(* GeneratorUtils.generateId draws random bytes; the model names the id by *)
(* the call that drew it (the URL of the item and the number of times that *)
(* URL was handed to the ingest), so that the ids of two calls differ.     *)
(* INSERT fails on an id the table holds already (id TEXT PRIMARY KEY).    *)
(***************************************************************************)
GenerateId(url, n) == [of |-> url, call |-> n]

IdIsFree(table, id) == \A row \in BagToSet(table) : row.id # id

Upserted(table, row) ==
  LET kept == {old \in BagToSet(table) : old.content # row.content}
  IN SetToBag(kept) (+) SetToBag({row})
Inserted(table, row) == table (+) SetToBag({row})

(***************************************************************************)
(* processBatch up to its await: the first n results are spliced off the   *)
(* buffer and each goes to processScrapedResult, which parses it at once   *)
(* and, unless the parse threw or gave nothing, calls encoder.extract on   *)
(* the parsed text and awaits it.                                          *)
(***************************************************************************)
Urls(rs) == {rs[i].url : i \in 1..Len(rs)}

StartBatch(n) ==
  LET taken == SpliceRemoved(results, n)
  IN /\ items' = taken
     /\ results' = SpliceRest(results, n)
     /\ handed' = [u \in AllUrls |-> IF u \in Urls(taken) THEN handed[u] + 1 ELSE handed[u]]
     /\ \E markdown \in [Urls(taken) -> UNION {ParseOutcomes(u) : u \in Urls(taken)}] :
          /\ \A u \in Urls(taken) : markdown[u] \in ParseOutcomes(u)
          /\ parsed' = [u \in AllUrls |-> IF u \in Urls(taken) THEN markdown[u] ELSE NotParsed]
          /\ rejected' = {u \in Urls(taken) : markdown[u].kind = "throws"}
          /\ embedding' = {u \in Urls(taken) :
                             markdown[u].kind # "throws" /\ ~IsEmptyTransform(markdown[u])}
          /\ extracts' = {[by |-> u, sentences |-> <<markdown[u].text>>] : u \in embedding'}

(***************************************************************************)
(* scrapeAll, lines 57-60: every fetch of the batch has settled; the       *)
(* buffer is drained when it holds batchSize results or more.              *)
(***************************************************************************)
Settled ==
  /\ pc = "await"
  /\ inflight = {}
  /\ IF Len(results) >= batchSize /\ encoder # Null /\ schema # Null
     THEN /\ StartBatch(batchSize)
          /\ pc' = "ingest"
     ELSE /\ pc' = "loop"
          /\ UNCHANGED <<results, items, embedding, handed>>
          /\ UNCHANGED <<parsed, rejected, extracts>>
  /\ UNCHANGED <<visited, queue, encoder, schema, maxDepth>>
  /\ UNCHANGED <<baseUrl, concurrency, batchSize, batch, next, inflight>>
  /\ UNCHANGED <<runs, issued, fetchCount, outcome, discDepth, extracted, missedLink>>
  /\ UNCHANGED <<probeVars, unitVars, trimVars, inserts, store>>

(***************************************************************************)
(* scrapeAll, lines 51 and 62-65: the queue is empty; what is left in the  *)
(* buffer is drained, or scrapeAll returns.                                *)
(***************************************************************************)
DrainNever(rs, enc, sch) == FALSE
FinalDrainDue(rs, enc, sch) == Len(rs) > 0 /\ enc # Null /\ sch # Null

LoopExit ==
  /\ pc = "loop"
  /\ Len(queue) = 0
  /\ IF FinalDrainDue(results, encoder, schema)
     THEN /\ StartBatch(Len(results))
          /\ pc' = "drain"
     ELSE /\ pc' = "done"
          /\ UNCHANGED <<results, items, embedding, handed>>
          /\ UNCHANGED <<parsed, rejected, extracts>>
  /\ UNCHANGED <<visited, queue, encoder, schema, maxDepth>>
  /\ UNCHANGED <<baseUrl, concurrency, batchSize, batch, next, inflight>>
  /\ UNCHANGED <<runs, issued, fetchCount, outcome, discDepth, extracted, missedLink>>
  /\ UNCHANGED <<probeVars, unitVars, trimVars, inserts, store>>

(***************************************************************************)
(* processScrapedResult, lines 113-129: encoder.extract resolved; the      *)
(* vector is taken from its data and insertVector is called with the URL,  *)
(* the parsed text and the vector.  The insert writes the row, or throws   *)
(* and the call rejects.                                                   *)
(***************************************************************************)
InsertCall(url) ==
  LET markdown == parsed[url].text
      embeddingResult == ExtractData(<<markdown>>)
      embeddingVector == FirstOrEmpty(embeddingResult)
  IN [by |-> url, row |-> Row(GenerateId(url, handed[url]), url, markdown, embeddingVector)]

Stored ==
  /\ pc \in {"ingest", "drain"}
  /\ \E url \in embedding :
       /\ IdIsFree(store, InsertCall(url).row.id)
       /\ embedding' = embedding \ {url}
       /\ inserts' = inserts \cup {InsertCall(url)}
       /\ store' = Inserted(store, InsertCall(url).row)
  /\ UNCHANGED <<scraperVars, historyVars, probeVars, unitVars, trimVars>>
  /\ UNCHANGED <<pc, baseUrl, concurrency, batchSize, batch, next, inflight, items>>
  /\ UNCHANGED <<parsed, rejected, extracts>>

InsertThrows ==
  /\ pc \in {"ingest", "drain"}
  /\ \E url \in embedding :
       /\ embedding' = embedding \ {url}
       /\ inserts' = inserts \cup {InsertCall(url)}
       /\ rejected' = rejected \cup {url}
  /\ UNCHANGED <<scraperVars, historyVars, probeVars, unitVars, trimVars>>
  /\ UNCHANGED <<pc, baseUrl, concurrency, batchSize, batch, next, inflight, items>>
  /\ UNCHANGED <<parsed, extracts, store>>

(***************************************************************************)
(* processScrapedResult, line 113: encoder.extract rejected, and so does   *)
(* the call.                                                               *)
(***************************************************************************)
ExtractRejects ==
  /\ pc \in {"ingest", "drain"}
  /\ \E url \in embedding :
       /\ embedding' = embedding \ {url}
       /\ rejected' = rejected \cup {url}
  /\ UNCHANGED <<scraperVars, historyVars, probeVars, unitVars, trimVars>>
  /\ UNCHANGED <<pc, baseUrl, concurrency, batchSize, batch, next, inflight, items>>
  /\ UNCHANGED <<parsed, extracts, inserts, store>>

ItemSettles == Stored \/ InsertThrows \/ ExtractRejects

(***************************************************************************)
(* processBatch, lines 81-88: Promise.allSettled resolves once every call  *)
(* has settled, whether it resolved or rejected; the buffer is cleared and *)
(* an oversized queue is cut to its newest entries.                        *)
(***************************************************************************)
TrimLate(q, n) == IF Len(q) > n + 1 THEN SliceLast(q, n) ELSE q
TrimTo(q, n) == IF Len(q) > n THEN SliceLast(q, n) ELSE q

AllFulfilled(pending, failed) == pending = {} /\ failed = {}
AllSettled(pending, failed) == pending = {}

BatchDone ==
  /\ pc \in {"ingest", "drain"}
  /\ AllSettled(embedding, rejected)
  /\ results' = <<>>
  /\ queue' = TrimTo(queue, ceiling)
  /\ untrimmed' = IF Len(queue) > ceiling THEN queue ELSE untrimmed
  /\ items' = <<>>
  /\ parsed' = [u \in AllUrls |-> NotParsed]
  /\ rejected' = {}
  /\ extracts' = {}
  /\ inserts' = {}
  /\ pc' = IF pc = "ingest" THEN "loop" ELSE "done"
  /\ UNCHANGED <<visited, encoder, schema, maxDepth>>
  /\ UNCHANGED <<baseUrl, concurrency, batchSize, batch, next, inflight, embedding>>
  /\ UNCHANGED <<historyVars, probeVars, unitVars, ceiling, store>>

Next ==
  \/ ScrapeAll
  \/ PullBatch
  \/ ProcessUrl
  \/ FetchOk
  \/ FetchFail
  \/ Settled
  \/ LoopExit
  \/ Stored
  \/ InsertThrows
  \/ ExtractRejects
  \/ BatchDone

Spec == Init /\ [][Next]_vars

(***************************************************************************)
(* The crawl under the scheduling the program runs with: the event loop    *)
(* resumes scrapeAll whenever what it awaits has settled, and every fetch  *)
(* and every processScrapedResult call settles in the end.                 *)
(***************************************************************************)
Resume == PullBatch \/ ProcessUrl \/ Settled \/ LoopExit \/ BatchDone

FetchSettles == FetchOk \/ FetchFail

Fairness ==
  /\ WF_vars(Resume)
  /\ WF_vars(FetchSettles)
  /\ WF_vars(ItemSettles)

FairSpec == Spec /\ Fairness

TypeOK ==
  /\ visited \subseteq AllUrls
  /\ Range(queue) \subseteq AllUrls
  /\ inflight \subseteq AllUrls
  /\ pc \in {"idle", "loop", "launch", "await", "ingest", "drain", "done"}

(***************************************************************************)
(* isValidUrl on its own: the URLs it is called on and the call.           *)
(***************************************************************************)
DirSegments == { <<>>, <<"d", "/">>, <<"v", ".", "2", "/">> }

LastSegments ==
  { <<>>,
    <<"g">>,
    <<"g", ".", "h", "t", "m", "l">>,
    <<"g", ".", "H", "T", "M">>,
    <<"g", ".", "p", "d", "f">> }

ProbeUrls ==
  { Url(h, <<"/">> \o d \o l, f) :
      h \in {HostA, HostSub, HostExt}, d \in DirSegments,
      l \in LastSegments, f \in {NoFrag, Frag} }

InitUrl ==
  /\ InitScraper
  /\ probe \in ProbeUrls
  /\ verdict = "unchecked"
  /\ ceiling = QueueCeiling
  /\ untrimmed = <<>>
  /\ web = "any"
  /\ EncoderNew
  /\ MainNew
  /\ DecoderNew

CheckUrl ==
  /\ verdict = "unchecked"
  /\ verdict' = IF IsValidUrl(probe) THEN "valid" ELSE "invalid"
  /\ UNCHANGED <<scraperVars, callVars, historyVars, probe, unitVars, trimVars, ingestVars>>

NextUrl == CheckUrl

SpecUrl == InitUrl /\ [][NextUrl]_vars

(***************************************************************************)
(* Database on its own: insertVector and searchVectors called in any       *)
(* order on a table that starts empty.  A distance is in thousandths; the  *)
(* cosine distance of sqlite-vec is given as a table over the vectors and  *)
(* the queries of the model.                                               *)
(***************************************************************************)
DbIds == 1..MaxRows

DbVectors == {<<1>>, <<2>>, <<3>>, <<4>>, <<5>>}

DbQueries == {<<1>>, <<9>>}

DbContents == {<<"a">>, <<"b">>}

Distance(vector, query) ==
  IF query = <<1>>
  THEN CASE vector = <<1>> -> 5
         [] vector = <<2>> -> 100
         [] vector = <<3>> -> 400
         [] vector = <<4>> -> 900
         [] OTHER -> 1500
  ELSE CASE vector = <<1>> -> 900
         [] vector = <<2>> -> 400
         [] vector = <<3>> -> 400
         [] vector = <<4>> -> 100
         [] OTHER -> 0

(***************************************************************************)
(* Math.round of the fraction n / d, d > 0: the floor of n / d + 1/2.      *)
(***************************************************************************)
MathFloor(n, d) == n \div d
MathRound(n, d) == (2 * n + d) \div (2 * d)

Similarity(distance) == MathRound((1000 - distance) * 100, 1000)

(***************************************************************************)
(* ORDER BY vec_distance_cosine(vector, ?) LIMIT ?: the rows in ascending  *)
(* distance, rows of equal distance in an order SQL leaves open, cut to    *)
(* the limit; a negative limit cuts nothing.                               *)
(***************************************************************************)
Orderings(rows, query) ==
  { order \in [1..Cardinality(rows) -> rows] :
      /\ \A i, j \in DOMAIN order : order[i] = order[j] => i = j
      /\ \A i, j \in DOMAIN order :
           i < j => Distance(order[i].vector, query) <= Distance(order[j].vector, query) }

Limited(order, limit) == IF limit < 0 THEN order ELSE SubSeq(order, 1, Min(limit, Len(order)))

EmbeddingQuery(row, query) ==
  [id |-> row.id, source |-> row.source, content |-> row.content,
   similarity |-> Similarity(Distance(row.vector, query))]

InitDb ==
  /\ InitScraper
  /\ probe = NoUrl
  /\ verdict = "unchecked"
  /\ ceiling = QueueCeiling
  /\ untrimmed = <<>>
  /\ web = "any"
  /\ EncoderNew
  /\ MainNew
  /\ DecoderNew

(***************************************************************************)
(* insertVector: the row is added, or the statement throws on a taken id.  *)
(***************************************************************************)
InsertVector ==
  /\ \E id \in DbIds, embedding0 \in DbVectors, content \in DbContents :
       /\ store' = IF IdIsFree(store, id)
                   THEN Inserted(store, Row(id, NoUrl, content, embedding0))
                   ELSE store
  /\ returned' = <<>>
  /\ dbQuery' = NoQuery
  /\ UNCHANGED <<scraperVars, callVars, historyVars, probeVars, trimVars>>
  /\ UNCHANGED <<parsed, rejected, extracts, inserts>>
  /\ UNCHANGED <<web, encVars, callerVars>>

(***************************************************************************)
(* searchVectors: the rows nearest to the query, each with its similarity. *)
(* The vector and the timestamp of a returned entry are left out.          *)
(***************************************************************************)
SearchVectors ==
  /\ \E queryEmbedding \in DbQueries, limit \in 0..MaxLimit :
       /\ dbQuery' = [query |-> queryEmbedding, limit |-> limit]
       /\ \E order \in Orderings(BagToSet(store), queryEmbedding) :
            returned' = [i \in 1..Len(Limited(order, limit)) |->
                           EmbeddingQuery(Limited(order, limit)[i], queryEmbedding)]
  /\ UNCHANGED <<scraperVars, callVars, historyVars, probeVars, trimVars>>
  /\ UNCHANGED <<parsed, rejected, extracts, inserts, store>>
  /\ UNCHANGED <<web, encVars, callerVars>>

NextDb == InsertVector \/ SearchVectors

SpecDb == InitDb /\ [][NextDb]_vars

(***************************************************************************)
(* The crawl with the ceiling scaled down, so that the queue can outgrow   *)
(* it: the actions are those of Spec.                                      *)
(***************************************************************************)
InitScaled ==
  /\ InitScraper
  /\ probe = NoUrl
  /\ verdict = "unchecked"
  /\ ceiling \in 1..MaxScaledCeiling
  /\ untrimmed = <<>>
  /\ web = "any"
  /\ EncoderNew
  /\ MainNew
  /\ DecoderNew

SpecScaled == InitScaled /\ [][Next]_vars

(***************************************************************************)
(* The Encoder on its own.  Sentences are one character long, so that the  *)
(* vectors of the pipeline all have the same dimension.                    *)
(***************************************************************************)
EncSentences == {<<"a">>, <<"b">>}

(***************************************************************************)
(* The options of an extract call: batchSize is given (1 or more) or left  *)
(* out; {...defaultOptions, ...options} fills it in.                       *)
(***************************************************************************)
OptionSets ==
  {[given |-> TRUE, batchSize |-> b] : b \in 1..MaxChunk}
    \cup {[given |-> FALSE, batchSize |-> 0]}

MergeOptions(options) ==
  [batchSize |-> IF options.given THEN options.batchSize ELSE DefaultBatchSize]

Ready(flag, model) == flag /\ model # Null

IsInitialized == Ready(initialized, pipeline)

OnlyUninitialized(ready, sentences) == ~ready
Rejects(ready, sentences) == ~ready \/ Len(sentences) = 0

NotInitializedError == "Encoder not initialized. Call initialize() first."
EmptyInputError == "Input sentences array cannot be empty"
ExtractError == "Failed to extract embeddings"

Failure(message) ==
  [kind |-> "error", message |-> message, data |-> <<>>, dimensions |-> 0, count |-> 0]

(***************************************************************************)
(* Array.prototype.slice(start, end) with 0 <= start <= end.               *)
(***************************************************************************)
Slice(s, start, end) == SubSeq(s, start + 1, Min(end, Len(s)))

RECURSIVE Flatten(_)
Flatten(ss) == IF ss = <<>> THEN <<>> ELSE Head(ss) \o Flatten(Tail(ss))

(***************************************************************************)
(* The first loop of processBatches: the chunks, from index i on.          *)
(***************************************************************************)
StepByOne(i, size) == i + 1
StepIndex(i, size) == i + size

RECURSIVE Batches(_, _, _)
Batches(sentences, i, size) ==
  IF i < Len(sentences)
  THEN <<Slice(sentences, i, i + size)>> \o Batches(sentences, StepIndex(i, size), size)
  ELSE <<>>

(***************************************************************************)
(* What the pipeline returns for a chunk: the vectors of its sentences in  *)
(* one flat array, with dims = [sentences, dimension].                     *)
(***************************************************************************)
PipelineOutput(chunk) ==
  [data |-> Flatten([i \in 1..Len(chunk) |-> Embed(chunk[i])]),
   dims |-> <<Len(chunk), Len(Embed(chunk[1]))>>]

(***************************************************************************)
(* processBatch after the pipeline returned: the flat array cut into one   *)
(* vector per sentence.                                                    *)
(***************************************************************************)
BatchResult(output) ==
  LET numSentences == output.dims[1]
      dimensions == output.dims[2]
  IN [i \in 1..numSentences |->
        Slice(output.data, (i - 1) * dimensions, (i - 1) * dimensions + dimensions)]

EmbeddingResult(vectors, sentences) ==
  [kind |-> "value", message |-> "", data |-> vectors,
   dimensions |-> IF Len(vectors) > 0 THEN Len(vectors[1]) ELSE 0,
   count |-> Len(sentences)]

KeepPipeline(model) == model
ResetPipeline(model) == Null

initVars == <<loading, overlap, loads, initOutcome>>
extractVars == <<extPc, sentenceList, mergedOptions, batches, allResults,
                 pipelineCalls, extractOutcome>>
otherVars == <<scraperVars, callVars, historyVars, probeVars, trimVars, ingestVars,
               dbVars, web>>

(***************************************************************************)
(* initialize(): returns at once when the encoder is initialized, else     *)
(* starts loading the model and waits for it.                              *)
(***************************************************************************)
InitializeCall ==
  /\ IF IsInitialized
     THEN /\ initOutcome' = "returned"
          /\ UNCHANGED <<loading, overlap, loads>>
     ELSE /\ loads < MaxLoads
          /\ loading < MaxOverlap
          /\ loads' = loads + 1
          /\ loading' = loading + 1
          /\ overlap' = (loading > 0)
          /\ initOutcome' = "loading"
  /\ UNCHANGED <<pipeline, initialized, extractVars, otherVars>>

Initialize == InitializeCall /\ UNCHANGED callerVars

(***************************************************************************)
(* initialize() after the model loaded: both fields are set.               *)
(***************************************************************************)
LoadResolved ==
  /\ loading > 0
  /\ loading' = loading - 1
  /\ pipeline' = DefaultModel
  /\ initialized' = TRUE
  /\ initOutcome' = "loaded"
  /\ UNCHANGED <<overlap, loads, extractVars, otherVars>>

LoadResolves == LoadResolved /\ UNCHANGED callerVars

(***************************************************************************)
(* initialize() after the load failed: the error is wrapped and thrown.    *)
(***************************************************************************)
LoadRejected ==
  /\ loading > 0
  /\ loading' = loading - 1
  /\ initOutcome' = "threw"
  /\ UNCHANGED <<pipeline, initialized, overlap, loads, extractVars, otherVars>>

LoadRejects == LoadRejected /\ UNCHANGED callerVars

(***************************************************************************)
(* dispose().                                                              *)
(***************************************************************************)
Dispose ==
  /\ pipeline' = ResetPipeline(pipeline)
  /\ initialized' = FALSE
  /\ UNCHANGED <<initVars, extractVars, otherVars, callerVars>>

(***************************************************************************)
(* extract(sentences, options) up to its first await: the two checks, the  *)
(* chunks, and the pipeline called on the first chunk.                     *)
(***************************************************************************)
ExtractCall(sentences, options) ==
  /\ extPc = "idle"
  /\   LET merged == MergeOptions(options)
           chunks == Batches(sentences, 0, merged.batchSize)
       IN /\ sentenceList' = sentences
          /\ IF Rejects(IsInitialized, sentences)
             THEN /\ extractOutcome' = Failure(IF ~IsInitialized THEN NotInitializedError
                                                                 ELSE EmptyInputError)
                  /\ UNCHANGED <<extPc, mergedOptions, batches, allResults, pipelineCalls>>
             ELSE /\ mergedOptions' = merged
                  /\ allResults' = <<>>
                  /\ IF chunks = <<>>
                     THEN /\ extractOutcome' = EmbeddingResult(<<>>, sentences)
                          /\ pipelineCalls' = <<>>
                          /\ batches' = <<>>
                          /\ extPc' = "idle"
                     ELSE IF pipeline = Null
                     THEN /\ extractOutcome' = Failure(ExtractError)
                          /\ pipelineCalls' = <<>>
                          /\ batches' = <<>>
                          /\ extPc' = "idle"
                     ELSE /\ extractOutcome' = NoOutcome
                          /\ pipelineCalls' = <<chunks[1]>>
                          /\ batches' = chunks
                          /\ extPc' = "await"
  /\ UNCHANGED <<pipeline, initialized, initVars, otherVars>>

Extract ==
  \E sentences \in SeqsUpTo(EncSentences, MaxSentences), options \in OptionSets :
     ExtractCall(sentences, options) /\ UNCHANGED callerVars

(***************************************************************************)
(* The pipeline returned for the chunk in hand: its vectors are appended,  *)
(* and processBatches goes on to the next chunk or extract returns.        *)
(***************************************************************************)
PipelineResolves ==
  /\ extPc = "await"
  /\ LET collected == allResults \o BatchResult(PipelineOutput(Head(batches)))
         rest == Tail(batches)
     IN IF rest = <<>>
        THEN /\ extractOutcome' = EmbeddingResult(collected, sentenceList)
             /\ extPc' = "idle"
             /\ batches' = <<>>
             /\ allResults' = <<>>
             /\ UNCHANGED pipelineCalls
        ELSE IF pipeline = Null
        THEN /\ extractOutcome' = Failure(ExtractError)
             /\ extPc' = "idle"
             /\ batches' = <<>>
             /\ allResults' = <<>>
             /\ UNCHANGED pipelineCalls
        ELSE /\ batches' = rest
             /\ allResults' = collected
             /\ pipelineCalls' = Append(pipelineCalls, Head(rest))
             /\ UNCHANGED <<extPc, extractOutcome>>
  /\ UNCHANGED <<pipeline, initialized, initVars, sentenceList, mergedOptions, otherVars,
                 callerVars>>

(***************************************************************************)
(* The pipeline threw for the chunk in hand: extract wraps the error.      *)
(***************************************************************************)
PipelineRejects ==
  /\ extPc = "await"
  /\ extractOutcome' = Failure(ExtractError)
  /\ extPc' = "idle"
  /\ batches' = <<>>
  /\ allResults' = <<>>
  /\ UNCHANGED <<pipeline, initialized, initVars, sentenceList, mergedOptions,
                 pipelineCalls, otherVars, callerVars>>

InitEnc ==
  /\ InitScraper
  /\ probe = NoUrl
  /\ verdict = "unchecked"
  /\ ceiling = QueueCeiling
  /\ untrimmed = <<>>
  /\ web = "any"
  /\ EncoderNew
  /\ MainNew
  /\ DecoderNew

NextEnc ==
  \/ Initialize
  \/ LoadResolves
  \/ LoadRejects
  \/ Dispose
  \/ Extract
  \/ PipelineResolves
  \/ PipelineRejects

SpecEnc == InitEnc /\ [][NextEnc]_vars

(***************************************************************************)
(* main() of index.ts.  scraperSchema lists four schemas of one URL each;  *)
(* main() crawls them in order with one encoder.  A scrapeAll call is      *)
(* taken as a whole here: it resolves, having contained the fetch and item *)
(* failures that happened in it.                                           *)
(***************************************************************************)
ScraperSchema ==
  << <<"https://nodejs.org/docs/latest-v24.x/api/">>,
     <<"https://www.typescriptlang.org/docs/handbook/intro.html">>,
     <<"https://www.javascripttutorial.net/">>,
     <<"https://docs.python.org/3/contents.html">> >>

CrawlUrls == Flatten(ScraperSchema)

ContainedFailures == SUBSET {"fetch", "item"}

(***************************************************************************)
(* The exit status of a process that ends because nothing is left to run,  *)
(* with process.exitCode never set.                                        *)
(***************************************************************************)
ExitCodeUnset == 0
ExitCodeGiven == 0

(***************************************************************************)
(* main() up to its first await: the encoder is made and initialize() is   *)
(* called on it.                                                           *)
(***************************************************************************)
Main ==
  /\ mainPc = "idle"
  /\ InitializeCall
  /\ mainPc' = "init"
  /\ UNCHANGED <<crawlAt, crawlLog, logged, exitStatus>>
  /\ UNCHANGED decVars

(***************************************************************************)
(* The model loaded: main() goes on to its first scrapeAll call, or to     *)
(* process.exit(0) when there is no URL.                                   *)
(***************************************************************************)
MainInitialized ==
  /\ mainPc = "init"
  /\ LoadResolved
  /\ IF Len(CrawlUrls) > 0
     THEN /\ mainPc' = "crawl"
          /\ crawlAt' = 1
          /\ UNCHANGED exitStatus
     ELSE /\ mainPc' = "exited"
          /\ exitStatus' = ExitCodeGiven
          /\ UNCHANGED crawlAt
  /\ UNCHANGED <<crawlLog, logged>>
  /\ UNCHANGED decVars

(***************************************************************************)
(* The model failed to load: initialize() throws, main() rejects, and the  *)
(* catch handler logs the message.                                         *)
(***************************************************************************)
MainInitFails ==
  /\ mainPc = "init"
  /\ LoadRejected
  /\ mainPc' = "caught"
  /\ logged' = TRUE
  /\ UNCHANGED <<crawlAt, crawlLog, exitStatus>>
  /\ UNCHANGED decVars

(***************************************************************************)
(* A scrapeAll call resolved: the next one is made, or process.exit(0)     *)
(* after the last.                                                         *)
(***************************************************************************)
CrawlResolves ==
  /\ mainPc = "crawl"
  /\ \E failures \in ContainedFailures : crawlLog' = Append(crawlLog, failures)
  /\ IF crawlAt < Len(CrawlUrls)
     THEN /\ crawlAt' = crawlAt + 1
          /\ UNCHANGED <<mainPc, exitStatus>>
     ELSE /\ mainPc' = "exited"
          /\ exitStatus' = ExitCodeGiven
          /\ UNCHANGED crawlAt
  /\ UNCHANGED <<logged, encVars, otherVars>>
  /\ UNCHANGED decVars

(***************************************************************************)
(* After the catch handler nothing is left to run and the process ends.    *)
(***************************************************************************)
EventLoopDrains ==
  /\ mainPc = "caught"
  /\ mainPc' = "exited"
  /\ exitStatus' = ExitCodeUnset
  /\ UNCHANGED <<crawlAt, crawlLog, logged, encVars, otherVars>>
  /\ UNCHANGED decVars

InitMain ==
  /\ InitScraper
  /\ probe = NoUrl
  /\ verdict = "unchecked"
  /\ ceiling = QueueCeiling
  /\ untrimmed = <<>>
  /\ web = "any"
  /\ EncoderNew
  /\ MainNew
  /\ DecoderNew

NextMain ==
  \/ Main
  \/ MainInitialized
  \/ MainInitFails
  \/ CrawlResolves
  \/ EventLoopDrains

SpecMain == InitMain /\ [][NextMain]_vars

(***************************************************************************)
(* The Decoder on its own, its query calls made one after the other.  A    *)
(* query is a string of characters.                                        *)
(***************************************************************************)
DecQueries ==
  {<<>>, <<" ">>, <<" ", "\t">>, <<"a">>, <<" ", "a">>, <<"b", " ">>}

IsWhiteSpace(c) == c \in {" ", "\t", "\n"}

(***************************************************************************)
(* String.prototype.trim.                                                  *)
(***************************************************************************)
RECURSIVE TrimStart(_)
TrimStart(str) ==
  IF str # <<>> /\ IsWhiteSpace(Head(str)) THEN TrimStart(Tail(str)) ELSE str

RECURSIVE TrimEnd(_)
TrimEnd(str) ==
  IF str # <<>> /\ IsWhiteSpace(str[Len(str)])
  THEN TrimEnd(SubSeq(str, 1, Len(str) - 1))
  ELSE str

NoTrim(str) == str
Trim(str) == TrimEnd(TrimStart(str))

(***************************************************************************)
(* The test of query, line 38: !query || query.trim().length === 0.        *)
(***************************************************************************)
IsBlank(query) == query = <<>> \/ Len(Trim(query)) = 0

EmptyQueryError == "Query cannot be empty"
QueryVectorError == "Failed to generate query vector"
InitializeError == "Failed to initialize embedding pipeline"

Thrown(message) == [kind |-> "error", message |-> message, rows |-> <<>>]

NoOptions == [given |-> FALSE, batchSize |-> 0]

(***************************************************************************)
(* query(query, limit) up to its first await: the test of the query, then  *)
(* Decoder.initialize(), which calls encoder.initialize() unless the flag  *)
(* is set.                                                                 *)
(***************************************************************************)
Query ==
  /\ decPc = "idle"
  /\ \E query \in DecQueries, limit \in 1..MaxLimit :
       /\ decQuery' = [query |-> query, limit |-> limit]
       /\ IF IsBlank(query)
          THEN /\ decOutcome' = Thrown(EmptyQueryError)
               /\ UNCHANGED <<decInitialized, decPc, encVars, otherVars>>
          ELSE /\ decOutcome' = Pending
               /\ UNCHANGED decInitialized
               /\ IF decInitialized
                  THEN /\ decPc' = "ready"
                       /\ UNCHANGED <<encVars, otherVars>>
                  ELSE /\ InitializeCall
                       /\ decPc' = IF IsInitialized THEN "ready" ELSE "init"
  /\ UNCHANGED mainVars

(***************************************************************************)
(* Decoder.initialize() after encoder.initialize() resolved: the flag is   *)
(* set.                                                                    *)
(***************************************************************************)
DecoderLoaded ==
  /\ decPc = "init"
  /\ LoadResolved
  /\ decInitialized' = TRUE
  /\ decPc' = "ready"
  /\ UNCHANGED <<decQuery, decOutcome, mainVars>>

(***************************************************************************)
(* encoder.initialize() threw: Decoder.initialize() and query reject, the  *)
(* flag is not set.                                                        *)
(***************************************************************************)
DecoderLoadFails ==
  /\ decPc = "init"
  /\ LoadRejected
  /\ decOutcome' = Thrown(InitializeError)
  /\ decPc' = "idle"
  /\ UNCHANGED <<decInitialized, decQuery, mainVars>>

(***************************************************************************)
(* query, line 42: encoder.extract([query]) is called.                     *)
(***************************************************************************)
DecoderExtracts ==
  /\ decPc = "ready"
  /\ ExtractCall(<<decQuery.query>>, NoOptions)
  /\ decPc' = "extract"
  /\ UNCHANGED <<decInitialized, decQuery, decOutcome, mainVars>>

(***************************************************************************)
(* query, lines 42-55: extract has settled; its error is passed on, or the *)
(* vector is taken from its data and the database is searched.             *)
(***************************************************************************)
DecoderSearches ==
  /\ decPc = "extract"
  /\ extPc = "idle"
  /\ decPc' = "idle"
  /\ LET queryVector == FirstOrEmpty(extractOutcome.data)
     IN IF extractOutcome.kind = "error"
        THEN /\ decOutcome' = Thrown(extractOutcome.message)
             /\ UNCHANGED dbVars
        ELSE IF Len(queryVector) = 0
        THEN /\ decOutcome' = Thrown(QueryVectorError)
             /\ UNCHANGED dbVars
        ELSE /\ dbQuery' = [query |-> queryVector, limit |-> decQuery.limit]
             /\ \E order \in Orderings(BagToSet(store), queryVector) :
                  returned' = [i \in 1..Len(Limited(order, decQuery.limit)) |->
                                 EmbeddingQuery(Limited(order, decQuery.limit)[i], queryVector)]
             /\ decOutcome' = [kind |-> "value", message |-> "", rows |-> returned']
  /\ UNCHANGED <<decInitialized, decQuery, encVars, mainVars>>
  /\ UNCHANGED <<scraperVars, callVars, historyVars, probeVars, trimVars, ingestVars, web>>

InitDec ==
  /\ InitScraper
  /\ probe = NoUrl
  /\ verdict = "unchecked"
  /\ ceiling = QueueCeiling
  /\ untrimmed = <<>>
  /\ web = "any"
  /\ EncoderNew
  /\ MainNew
  /\ DecoderNew

NextDec ==
  \/ Query
  \/ DecoderLoaded
  \/ DecoderLoadFails
  \/ DecoderExtracts
  \/ PipelineResolves
  \/ PipelineRejects
  \/ DecoderSearches

SpecDec == InitDec /\ [][NextDec]_vars

(***************************************************************************)
(* The crawl on the site of the end-to-end scenario.                       *)
(***************************************************************************)
InitScenario ==
  /\ InitScraper
  /\ probe = NoUrl
  /\ verdict = "unchecked"
  /\ ceiling = QueueCeiling
  /\ untrimmed = <<>>
  /\ web = "scenario"
  /\ EncoderNew
  /\ MainNew
  /\ DecoderNew

SpecScenario == InitScenario /\ [][Next]_vars

(***************************************************************************)
(* The trim step of processBatch on its own: processBatch stands at line   *)
(* 82, every item settled, with a queue of any length and a ceiling small  *)
(* enough for the queue to lie below it, at it and above it.               *)
(***************************************************************************)
TrimUrls == {u \in AllUrls : IsValidUrl(u)}

NoRepeat(s) == \A i, j \in 1..Len(s) : s[i] = s[j] => i = j

TrimQueues == {q \in SeqsUpTo(TrimUrls, MaxQueueLen) : NoRepeat(q)}

InitTrim ==
  /\ visited = {}
  /\ queue \in TrimQueues
  /\ encoder = "encoder"
  /\ schema = "schema"
  /\ results = <<>>
  /\ maxDepth = InitialMaxDepth
  /\ pc \in {"ingest", "drain"}
  /\ baseUrl = NoUrl
  /\ concurrency = 0
  /\ batchSize = 0
  /\ batch = <<>>
  /\ next = 1
  /\ inflight = {}
  /\ items = <<>>
  /\ embedding = {}
  /\ runs = 1
  /\ issued = {}
  /\ fetchCount = [u \in AllUrls |-> 0]
  /\ outcome = [u \in AllUrls |-> "none"]
  /\ discDepth = [u \in AllUrls |-> -1]
  /\ extracted = {}
  /\ handed = [u \in AllUrls |-> 0]
  /\ missedLink = FALSE
  /\ parsed = [u \in AllUrls |-> NotParsed]
  /\ rejected = {}
  /\ extracts = {}
  /\ inserts = {}
  /\ store = EmptyBag
  /\ returned = <<>>
  /\ dbQuery = NoQuery
  /\ probe = NoUrl
  /\ verdict = "unchecked"
  /\ ceiling \in 1..MaxCeiling
  /\ untrimmed = <<>>
  /\ web = "any"
  /\ EncoderNew
  /\ MainNew
  /\ DecoderNew

NextTrim == BatchDone

SpecTrim == InitTrim /\ [][NextTrim]_vars

(***************************************************************************)
(* C1. No duplicate fetch: no URL has had more than one fetch issued, and  *)
(* every URL in the visited set has had exactly one.                       *)
(***************************************************************************)
NoDuplicateFetch ==
  /\ \A u \in AllUrls : fetchCount[u] <= 1
  /\ \A u \in visited : fetchCount[u] = 1

(* A second call on the same seed has returned, after a first that crawled *)
(* two pages or more.                                                      *)
NoDuplicateFetchWitness ==
  /\ pc = "done"
  /\ runs = 2
  /\ baseUrl \in visited
  /\ Cardinality(visited) >= 2
  /\ concurrency >= 1

(***************************************************************************)
(* C2. Depth bound: no URL first discovered at a depth of maxDepth or more *)
(* has its links extracted.                                                *)
(***************************************************************************)
DepthBound == \A u \in extracted : discDepth[u] < maxDepth

(***************************************************************************)
(* C3. Each PageResult is consumed exactly once: no result goes to         *)
(* processScrapedResult twice, and a fetched page whose result has left    *)
(* the buffer has gone to processScrapedResult.                            *)
(***************************************************************************)
ConsumedExactlyOnce ==
  \A u \in AllUrls :
    /\ handed[u] <= 1
    /\ (outcome[u] = "ok" /\ u \notin Urls(results)) => handed[u] = 1

(***************************************************************************)
(* C4. Pending/visited disjointness: in the first run on an instance, at   *)
(* every await of scrapeAll and of processBatch no URL is both in the      *)
(* queue and visited.                                                      *)
(***************************************************************************)
PendingVisitedDisjoint ==
  (runs = 1 /\ pc \in {"await", "ingest", "drain"}) => Range(queue) \cap visited = {}

(* The first run on the instance awaits its fetches with a URL queued, a   *)
(* URL visited and a fetch still in flight.                                *)
PendingVisitedDisjointWitness ==
  /\ runs = 1
  /\ pc = "await"
  /\ Len(queue) >= 1
  /\ Cardinality(visited) >= 2
  /\ inflight # {}

(***************************************************************************)
(* C5. Enqueue contract: a URL enters the queue only if it is not visited  *)
(* (the seed included), so adding a visited URL leaves the queue as it is. *)
(***************************************************************************)
EnqueueContract ==
  [][\A u \in Range(queue') \ Range(queue) : u \notin visited]_vars

(***************************************************************************)
(* C6. Visited-before-fetch: a URL whose fetch is in flight is visited and *)
(* not queued, and when the fetches of a batch can settle every URL of the *)
(* batch is visited.                                                       *)
(***************************************************************************)
VisitedBeforeFetch ==
  /\ \A u \in inflight : u \in visited /\ u \notin Range(queue)
  /\ issued \subseteq visited
  /\ pc = "await" => Range(batch) \subseteq visited

(* Two fetches of one batch are in flight, none settled.                   *)
VisitedBeforeFetchWitness ==
  /\ pc = "await"
  /\ Cardinality(inflight) = 2
  /\ inflight = Range(batch)

(***************************************************************************)
(* C7. Fetch concurrency cap: the fetches in flight are at most            *)
(* concurrency, they are fetches of the current batch, and none is in      *)
(* flight once the batch has settled and until the next is pulled.         *)
(***************************************************************************)
FetchConcurrencyCap ==
  /\ Cardinality(inflight) <= concurrency
  /\ inflight \subseteq issued
  /\ issued \subseteq Range(batch)
  /\ pc \notin {"launch", "await"} => inflight = {}

(* The cap binds: as many fetches as concurrency allows are in flight      *)
(* while the queue holds more.                                             *)
FetchConcurrencyCapWitness ==
  /\ pc = "await"
  /\ concurrency >= 1
  /\ Cardinality(inflight) = concurrency
  /\ Len(queue) >= 1

LastIndexOf(s, c) ==
  LET hits == {i \in 1..Len(s) : s[i] = c}
  IN IF hits = {} THEN 0 ELSE CHOOSE i \in hits : \A j \in hits : j <= i

LastSegment(path) == SubSeq(path, LastIndexOf(path, "/") + 1, Len(path))

HasExtension(seg) == Includes(seg, ".")

Extension(seg) == SubSeq(seg, LastIndexOf(seg, ".") + 1, Len(seg))

RefValidUrl(u) ==
  /\ u.frag = NoFrag
  /\ LET seg == LastSegment(u.path)
     IN \/ ~HasExtension(seg)
        \/ ToLowerCase(Extension(seg)) \in { <<"h", "t", "m", "l">>, <<"h", "t", "m">> }

(***************************************************************************)
(* C10. Extension and fragment filter: isValidUrl accepts a URL exactly    *)
(* when the reference predicate does.                                      *)
(***************************************************************************)
ValidUrlMatchesReference ==
  verdict # "unchecked" => ((verdict = "valid") <=> RefValidUrl(probe))

(***************************************************************************)
(* C11. Frontier boundedness: immediately after any execution of the trim  *)
(* step the queue holds at most ceiling URLs, whatever it held before.     *)
(***************************************************************************)
TrimStep == pc \in {"ingest", "drain"} /\ pc' \notin {"ingest", "drain"}

FrontierBounded == [][TrimStep => Len(queue') <= ceiling]_vars

FrontierBoundedWitness ==
  /\ pc \in {"loop", "done"}
  /\ Len(untrimmed) = MaxQueueLen
  /\ ceiling = 1
  /\ Len(queue) = ceiling

(***************************************************************************)
(* C12. Trim keeps the newest entries: a queue longer than the ceiling is  *)
(* cut to its ceiling-many most recently inserted URLs, in their insertion *)
(* order, and a queue at or below the ceiling is left as it is.            *)
(***************************************************************************)
Newest(q, n) == [i \in 1..n |-> q[Len(q) - n + i]]

TrimKeepsNewest ==
  [][TrimStep => queue' = IF Len(queue) > ceiling
                          THEN Newest(queue, ceiling)
                          ELSE queue]_vars

TrimKeepsNewestWitness ==
  /\ pc \in {"loop", "done"}
  /\ ceiling >= 2
  /\ Len(untrimmed) >= ceiling + 2
  /\ queue = Newest(untrimmed, ceiling)
  /\ queue # SliceFirst(untrimmed, ceiling)

FinalDrainThenStop ==
  [][/\ pc' = "drain" => queue' = <<>> /\ inflight' = {}
     /\ pc = "drain" => /\ fetchCount' = fetchCount
                        /\ inflight' = {}
                        /\ pc' \in {"drain", "done"}
     /\ (pc' = "done" /\ encoder' # Null /\ schema' # Null) => results' = <<>>]_vars

FinalDrainThenStopWitness ==
  /\ pc = "drain"
  /\ Len(items) >= 1
  /\ embedding # {}
  /\ Cardinality(visited) >= 2
  /\ batchSize > Len(items)

(***************************************************************************)
(* C15. Crawl termination: a scrapeAll call with concurrency >= 1, whose   *)
(* fetches and ingest calls all settle, reaches an empty queue and         *)
(* resolves.                                                               *)
(***************************************************************************)
CrawlTerminates ==
  (pc = "loop" /\ concurrency >= 1) ~> (pc = "done" /\ queue = <<>>)

CrawlTerminatesWitness ==
  /\ pc = "done"
  /\ concurrency >= 1
  /\ queue = <<>>
  /\ Cardinality(visited) >= 3
  /\ runs = 1

(***************************************************************************)
(* C16. Threshold drain: with encoder and schema set, every iteration of   *)
(* the loop starts with fewer than batchSize results in the buffer,        *)
(* because a buffer that has reached batchSize is drained before the next  *)
(* batch is pulled.                                                        *)
(***************************************************************************)
ThresholdDrain ==
  (pc = "loop" /\ encoder # Null /\ schema # Null) => Len(results) < batchSize

(***************************************************************************)
(* C20. Ingest concurrency bound: at most batchSize processScrapedResult   *)
(* calls are in flight at any moment, they are in flight only while        *)
(* scrapeAll awaits processBatch, and no fetch is in flight meanwhile.     *)
(***************************************************************************)
IngestConcurrencyBound ==
  /\ Cardinality(embedding) <= batchSize
  /\ Len(items) <= batchSize
  /\ embedding \subseteq Urls(items)
  /\ pc \in {"ingest", "drain"} => inflight = {}
  /\ pc \notin {"ingest", "drain"} => embedding = {} /\ items = <<>>

IngestConcurrencyBoundWitness ==
  /\ pc = "ingest"
  /\ batchSize >= 2
  /\ Cardinality(embedding) = batchSize
  /\ Len(queue) >= 1

(***************************************************************************)
(* C17. Empty transform drops the item: an item whose schema.parse result  *)
(* is null or the empty string has its call completed without error, with *)
(* no encoder.extract call, no insertVector call and no row in the store.  *)
(***************************************************************************)
GaveNothing(markdown) ==
  markdown.kind = "null" \/ (markdown.kind = "string" /\ markdown.text = <<>>)

RowsOf(url) == {row \in BagToSet(store) : row.source = url}

EmptyTransformDrops ==
  \A u \in Urls(items) :
    GaveNothing(parsed[u]) =>
      /\ u \notin embedding
      /\ u \notin rejected
      /\ \A call \in extracts : call.by # u
      /\ \A call \in inserts : call.by # u
      /\ RowsOf(u) = {}

EmptyTransformDropsWitness ==
  /\ pc = "ingest"
  /\ embedding = {}
  /\ \E u, v \in Urls(items) :
       /\ parsed[u].kind = "null"
       /\ parsed[v].kind = "string"
       /\ parsed[v].text = <<>>
  /\ BagToSet(store) # {}

(***************************************************************************)
(* C18. One record per surviving result: an item whose parse gave text and *)
(* whose extract and insert succeeded has made exactly one insertVector    *)
(* call, and its row, the only row of its URL, holds the URL as source,    *)
(* the parsed text as content and the embedding of that text as vector.    *)
(***************************************************************************)
Survives(u) ==
  /\ parsed[u].kind = "string"
  /\ parsed[u].text # <<>>
  /\ u \notin embedding
  /\ u \notin rejected

OneRecordPerSurvivor ==
  \A u \in Urls(items) :
    Survives(u) =>
      LET Matches(row) == /\ row.source = u
                          /\ row.content = parsed[u].text
                          /\ row.vector = Embed(parsed[u].text)
      IN /\ Cardinality({call \in inserts : call.by = u}) = 1
         /\ \A call \in inserts : call.by = u => Matches(call.row)
         /\ Cardinality(RowsOf(u)) = 1
         /\ \A row \in RowsOf(u) : Matches(row) /\ CopiesIn(row, store) = 1

OneRecordPerSurvivorWitness ==
  /\ pc = "ingest"
  /\ \E u, v \in Urls(items) :
       /\ u # v
       /\ Survives(u)
       /\ Survives(v)
       /\ RowsOf(u) # RowsOf(v)

(***************************************************************************)
(* C19. Ingest isolation: whatever fails for one item of a batch, every    *)
(* item of the batch is parsed, every item whose parse gave text has its   *)
(* extract call made and is stored when its own extract and insert         *)
(* succeed, and processBatch goes on once every call has settled.          *)
(***************************************************************************)
IngestIsolation ==
  pc \in {"ingest", "drain"} =>
    /\ \A u \in Urls(items) :
         /\ parsed[u].kind # "none"
         /\ (parsed[u].kind = "string" /\ parsed[u].text # <<>>) =>
              \E call \in extracts : call.by = u /\ call.sentences = <<parsed[u].text>>
         /\ Survives(u) => RowsOf(u) # {}
    /\ embedding = {} => ENABLED BatchDone

IngestIsolationWitness ==
  /\ pc = "ingest"
  /\ embedding = {}
  /\ \E u, v \in Urls(items) :
       /\ parsed[u].kind = "string"
       /\ u \in rejected
       /\ Survives(v)
       /\ RowsOf(v) # {}
       /\ RowsOf(u) = {}

(***************************************************************************)
(* C21. Search ranking: searchVectors(query, k) returns min(k, number      *)
(* stored) distinct entries, none farther from the query than a row left   *)
(* out, in ascending distance, each with the integer nearest to            *)
(* (1 - distance) * 100 as similarity; with rows at distances 0.1, 0.4 and *)
(* 0.9 and k = 2 these are the 0.1 and 0.4 rows with similarities 90, 60.  *)
(***************************************************************************)
RowOfId(id) == CHOOSE row \in BagToSet(store) : row.id = id

DistanceOf(entry) == Distance(RowOfId(entry.id).vector, dbQuery.query)

Searched == dbQuery # NoQuery

AppendOnly ==
  [][/\ \A row \in BagToSet(store) : CopiesIn(row, store') = CopiesIn(row, store)
     /\ store' # store =>
          Cardinality(BagToSet(store')) = Cardinality(BagToSet(store)) + 1
     /\ (dbQuery' # NoQuery /\ dbQuery'.limit >= Cardinality(BagToSet(store'))) =>
          {returned'[i].id : i \in 1..Len(returned')} = {row.id : row \in BagToSet(store')}]_vars

AppendOnlyWitness ==
  /\ Searched
  /\ \E row, twin \in BagToSet(store) :
       /\ row.id # twin.id
       /\ row.content = twin.content
       /\ row.vector = twin.vector
       /\ \E i, j \in 1..Len(returned) : returned[i].id = row.id /\ returned[j].id = twin.id
  /\ Len(returned) = 2

(***************************************************************************)
(* C23. End-to-end scenario: on the scenario's site, a first crawl from    *)
(* the index page with maxDepth = 1 whose fetch of the index succeeded     *)
(* never has the other host's URL or the fragment URL queued, pulled or    *)
(* visited, stores a row only for the index page and for page1, one each   *)
(* at most and none for a page1 that did not parse, and ends with          *)
(* visited = {index, page1}.                                               *)
(***************************************************************************)
ScenarioRun ==
  /\ web = "scenario"
  /\ runs = 1
  /\ baseUrl = ScenarioIndex
  /\ maxDepth = 1
  /\ outcome[ScenarioIndex] = "ok"

NeverEnqueued(u) ==
  /\ u \notin Range(queue)
  /\ u \notin Range(batch)
  /\ u \notin visited
  /\ fetchCount[u] = 0

ScenarioStore ==
  /\ \A row \in BagToSet(store) : row.source \in {ScenarioIndex, ScenarioPage1}
  /\ Cardinality(RowsOf(ScenarioIndex)) <= 1
  /\ Cardinality(RowsOf(ScenarioPage1)) <= 1
  /\ (ScenarioPage1 \in Urls(items) /\ ~Survives(ScenarioPage1)) => RowsOf(ScenarioPage1) = {}

ScenarioFilters ==
  ScenarioRun => NeverEnqueued(ScenarioExt) /\ NeverEnqueued(ScenarioFrag) /\ ScenarioStore

EndToEndScenario ==
  /\ ScenarioFilters
  /\ (ScenarioRun /\ pc = "done") => visited = {ScenarioIndex, ScenarioPage1}

(***************************************************************************)
(* C24. Embedder preconditions: an extract call on an encoder that is not  *)
(* initialized, or with an empty list, settles at once with an error,      *)
(* passes nothing to the pipeline and leaves the encoder's fields and its  *)
(* loads as they were.                                                     *)
(***************************************************************************)
ExtractPreconditions ==
  [][(Extract /\ (~IsInitialized \/ sentenceList' = <<>>)) =>
       /\ extractOutcome'.kind = "error"
       /\ extractOutcome'.message \in {NotInitializedError, EmptyInputError}
       /\ extPc' = "idle"
       /\ pipelineCalls' = pipelineCalls
       /\ pipeline' = pipeline
       /\ initialized' = initialized
       /\ loads' = loads
       /\ loading' = loading]_vars

ExtractPreconditionsWitness ==
  /\ IsInitialized
  /\ sentenceList = <<>>
  /\ extractOutcome = Failure(EmptyInputError)
  /\ pipelineCalls # <<>>

(***************************************************************************)
(* C29. Encoder lifecycle: isInitialized() is true exactly when a pipeline *)
(* is loaded; initialize on an initialized encoder returns without a load; *)
(* dispose leaves the encoder uninitialized, extract on an uninitialized   *)
(* encoder fails, and only a model load that succeeded makes the encoder   *)
(* initialized; a failed initialize changes neither field, and leaves the  *)
(* encoder uninitialized when no other initialize call overlapped it.      *)
(***************************************************************************)
LifecycleStep ==
  /\ (Initialize /\ IsInitialized) =>
        /\ initOutcome' = "returned"
        /\ loads' = loads
        /\ loading' = loading
        /\ pipeline' = pipeline
  /\ Dispose => ~IsInitialized'
  /\ (Extract /\ ~IsInitialized) => extractOutcome' = Failure(NotInitializedError)
  /\ (~IsInitialized /\ IsInitialized') => (LoadResolves /\ initOutcome' = "loaded")
  /\ LoadRejects =>
        /\ pipeline' = pipeline
        /\ initialized' = initialized
        /\ ~overlap => ~IsInitialized'

EncoderLifecycle ==
  /\ [](IsInitialized <=> pipeline # Null)
  /\ [][LifecycleStep]_vars

EncoderLifecycleWitness ==
  /\ ~IsInitialized
  /\ initOutcome = "threw"
  /\ ~overlap
  /\ loads >= 2
  /\ pipelineCalls # <<>>
  /\ extractOutcome = Failure(NotInitializedError)

(***************************************************************************)
(* C30. Encoder batching: for a non-empty list and batchSize >= 1 the      *)
(* chunks passed to the pipeline are consecutive pieces of the list, each  *)
(* of 1 to batchSize sentences, the next one passed only after the vectors *)
(* of the one before were collected; an extract that returns has passed    *)
(* the whole list, and returns count = the number of sentences and in data *)
(* the vector of each sentence, in the order of the list.                  *)
(***************************************************************************)
Called == Flatten(pipelineCalls)

ChunksInOrder ==
  /\ Len(Called) <= Len(sentenceList)
  /\ Called = SubSeq(sentenceList, 1, Len(Called))
  /\ \A k \in 1..Len(pipelineCalls) :
       Len(pipelineCalls[k]) \in 1..mergedOptions.batchSize

EncoderBatching ==
  /\ extPc = "await" =>
        /\ pipelineCalls # <<>>
        /\ ChunksInOrder
        /\ Len(allResults) = Len(Called) - Len(pipelineCalls[Len(pipelineCalls)])
        /\ Len(allResults) <= Len(sentenceList)
        /\ \A i \in 1..Len(allResults) : allResults[i] = Embed(sentenceList[i])
  /\ extractOutcome.kind = "value" =>
        /\ sentenceList # <<>>
        /\ ChunksInOrder
        /\ Called = sentenceList
        /\ extractOutcome.count = Len(sentenceList)
        /\ Len(extractOutcome.data) = Len(sentenceList)
        /\ \A i \in 1..Len(sentenceList) : extractOutcome.data[i] = Embed(sentenceList[i])
        /\ extractOutcome.dimensions = Len(Embed(sentenceList[1]))

EncoderBatchingWitness ==
  /\ extractOutcome.kind = "value"
  /\ Len(sentenceList) = 3
  /\ sentenceList[1] # sentenceList[2]
  /\ mergedOptions.batchSize = 2
  /\ Len(pipelineCalls) = 2

(***************************************************************************)
(* C25. Error containment: a scrapeAll call with concurrency >= 1 in which *)
(* a fetch has failed, or the transform, the embedding or the insert of an *)
(* item has thrown, goes on and resolves with the frontier empty.          *)
(***************************************************************************)
InCall == pc \in {"loop", "launch", "await", "ingest", "drain"}

FailureSeen ==
  \/ \E u \in AllUrls : outcome[u] = "failed"
  \/ rejected # {}

Failed(u) == outcome[u] = "failed"

FailedIsDropped ==
  \A u \in AllUrls : Failed(u) =>
     /\ u \in visited
     /\ fetchCount[u] = 1
     /\ u \notin inflight
     /\ u \notin Urls(results)
     /\ u \notin Urls(items)
     /\ handed[u] = 0
     /\ RowsOf(u) = {}

FailureStep ==
  (\E u \in AllUrls : ~Failed(u) /\ Failed(u)') =>
     /\ queue' = queue
     /\ results' = results
     /\ visited' = visited
     /\ store' = store
     /\ extracted' = extracted

FailedUrlDropped ==
  /\ []FailedIsDropped
  /\ [][FailureStep]_vars

FailedUrlDroppedWitness ==
  /\ pc = "done"
  /\ runs = 2
  /\ Failed(baseUrl)
  /\ fetchCount[baseUrl] = 1
  /\ \E u \in AllUrls : outcome[u] = "ok"

(***************************************************************************)
(* C27. scrapeAll return value: the first call on an instance returns, in  *)
(* this.results, exactly one entry for every page whose fetch succeeded.   *)
(***************************************************************************)
Fetched == {u \in AllUrls : outcome[u] = "ok"}

ReturnsFetchedPages ==
  (pc = "done" /\ runs = 1) =>
     /\ Urls(results) = Fetched
     /\ Len(results) = Cardinality(Fetched)

(***************************************************************************)
(* C26. Exit status: when the process has ended, its status is not zero    *)
(* and no crawl was started if the initialization of the encoder failed,   *)
(* and its status is zero if the initialization succeeded.                 *)
(***************************************************************************)
ExitStatus ==
  mainPc = "exited" =>
     /\ initOutcome = "threw" => (exitStatus # 0 /\ crawlAt = 0)
     /\ initOutcome = "loaded" => exitStatus = 0

(***************************************************************************)
(* C32. Loop progress: whatever the concurrency argument, the iteration of *)
(* the scrapeAll loop that pulls a batch leaves the queue shorter than it  *)
(* found it.                                                               *)
(***************************************************************************)
LoopProgress ==
  [][PullBatch => Len(queue') < Len(queue)]_vars

(***************************************************************************)
(* C33. Breadth-first dequeue order: a pull takes the min(concurrency,     *)
(* queue size) URLs at the head of the queue and leaves the rest; no step  *)
(* changes the order of two URLs that stay queued (a trim included), and a *)
(* URL that enters the queue is placed after those already in it.  So a    *)
(* URL queued before another is never pulled in a later batch than it.     *)
(***************************************************************************)
Before(q, u, v) ==
  \E i, j \in 1..Len(q) : i < j /\ q[i] = u /\ q[j] = v

OrderKept ==
  \A u, v \in Range(queue') :
     (u # v /\ u \in Range(queue) /\ (v \notin Range(queue) \/ Before(queue, u, v)))
        => Before(queue', u, v)

PullsOldest ==
  PullBatch =>
     LET k == Min(concurrency, Len(queue))
     IN /\ batch' = SubSeq(queue, 1, k)
        /\ queue' = SubSeq(queue, k + 1, Len(queue))

BreadthFirstOrder ==
  [][OrderKept /\ PullsOldest]_vars

BreadthFirstOrderWitness ==
  /\ pc = "launch"
  /\ next = 1
  /\ Len(batch) = concurrency
  /\ queue # <<>>

(***************************************************************************)
(* C34. At most one stored record per URL: over the scrapeAll calls made   *)
(* on one instance, a URL is in the buffer or in an ingest batch at most   *)
(* once, is handed to the ingest at most once and only after its fetch     *)
(* succeeded, has at most one insert call in a batch, and has at most one  *)
(* row in the store.                                                       *)
(***************************************************************************)
NoRepeats(rs) == Cardinality(Urls(rs)) = Len(rs)

OneInsertPerUrl ==
  /\ NoRepeats(results \o items)
  /\ \A u \in AllUrls :
       /\ handed[u] <= 1
       /\ handed[u] = 1 => outcome[u] = "ok"
       /\ Cardinality({call \in inserts : call.by = u}) <= 1
       /\ \A call \in inserts : call.by = u => (u \in Urls(items) /\ handed[u] = 1)
       /\ Cardinality(RowsOf(u)) <= 1
       /\ \A row \in RowsOf(u) : CopiesIn(row, store) = 1 /\ outcome[u] = "ok"

OneInsertPerUrlWitness ==
  /\ pc = "done"
  /\ runs = 2
  /\ RowsOf(baseUrl) # {}
  /\ fetchCount[baseUrl] = 1
  /\ Cardinality(BagToSet(store)) >= 2

(***************************************************************************)
(* C35. Single model load under overlapping calls: an initialize call that *)
(* starts while another is waiting for the model does not load the model   *)
(* itself, so at most one load is in progress at any time.                 *)
(***************************************************************************)
SingleModelLoad == loading <= 1

(***************************************************************************)
(* C31. Decoder.query validation: a query call with an empty or            *)
(* whitespace-only query settles at once with 'Query cannot be empty' and  *)
(* changes neither the encoder, the database variables nor the decoder's   *)
(* flag; over query calls made one after the other, once the model has     *)
(* loaded no further load is started, so the encoder is initialized at     *)
(* most once.                                                              *)
(***************************************************************************)
OnlyWhiteSpace(str) == \A i \in 1..Len(str) : IsWhiteSpace(str[i])

BlankRejected ==
  (Query /\ OnlyWhiteSpace(decQuery'.query)) =>
     /\ decOutcome' = Thrown(EmptyQueryError)
     /\ decPc' = "idle"
     /\ decInitialized' = decInitialized
     /\ UNCHANGED <<encVars, dbVars>>

InitializedOnce ==
  /\ (decInitialized \/ IsInitialized) => loads' = loads
  /\ decInitialized' => IsInitialized'
  /\ loading' <= 1

QueryValidation ==
  [][BlankRejected /\ InitializedOnce]_vars

QueryValidationWitness ==
  /\ decPc = "idle"
  /\ decQuery.query = <<" ", "\t">>
  /\ decOutcome = Thrown(EmptyQueryError)
  /\ decInitialized
  /\ dbQuery # NoQuery
  /\ loads = 2

====
